---- MODULE Spec2Model ----
(***************************************************************************)
(* Model of src/bot.py: the parsing of the search data and the selection   *)
(* of a magnet (parse_size_to_bytes, parse_api_data_entry, get_magnet),    *)
(* the reclamation of a remote directory tree (recursive_collect_files,    *)
(* recursive_collect_empty_dirs, cleanup_empty_dirs, cleanup_small_files)  *)
(* and the /clean command (find_download_directory, clean_command).        *)
(*                                                                         *)
(* A remote path is the sequence of its components: "/r/a/x" is            *)
(* <<"r", "a", "x">>.  The storage backend is the environment: a listing   *)
(* either fails or shows the children of the directory, and a remove       *)
(* request answers with one of RemoveOutcomes.                             *)
(***************************************************************************)
EXTENDS Integers, Sequences, FiniteSets, TLC

VARIABLES
    SIZE_THRESHOLD,        \* bot.py:43, fixed at start-up
    fs,                    \* the remote tree: [dirs, files]
    fs0,                   \* the remote tree when the reclaim started
    pc,                    \* position of cleanup_small_files
    files_to_delete,       \* bot.py:400
    dir_files,             \* bot.py:405, in insertion order
    total_deleted_files,   \* bot.py:411
    file_error_messages,   \* bot.py:412
    empty_dirs,            \* bot.py:350, the part not yet processed
    total_deleted,         \* bot.py:354
    error_messages,        \* bot.py:355
    result,                \* what cleanup_small_files returned
    listLog,               \* every /api/fs/list request, in order
    removeLog,             \* every /api/fs/remove request, in order
    parsed_entries,        \* bot.py:167
    selected,              \* what get_magnet returned
    raw_result,            \* bot.py:153-156, the answer of the search service
    size_str,              \* bot.py:75, the argument of parse_size_to_bytes
    size_result,           \* what parse_size_to_bytes returned
    reclaim_root,          \* bot.py:391, target_dir of cleanup_small_files
    current_dir,           \* bot.py:680, the current download directory
    clean_target,          \* bot.py:675, target, the argument of /clean
    clean_pc,              \* position of clean_command
    directories,           \* bot.py:687
    idx,                   \* bot.py:699
    success_dirs,          \* bot.py:694
    total_files,           \* bot.py:695
    clean_error_messages,  \* bot.py:697, error_messages of clean_command
    final_text,            \* the last text clean_command replied
    reclaimLog,            \* every call of cleanup_small_files, in order
    ALIST_OFFLINE_DIRS,    \* bot.py:38, the configured download directories
    current_download_dir_index,  \* bot_data['current_download_dir_index']
    current_download_dir,  \* bot_data['current_download_dir']
    config_reply           \* the last text /switch or /reload_config replied

vars == <<SIZE_THRESHOLD, fs, fs0, pc, files_to_delete, dir_files,
          total_deleted_files, file_error_messages, empty_dirs, total_deleted,
          error_messages, result, listLog, removeLog, parsed_entries, selected,
          raw_result, size_str, size_result, reclaim_root, current_dir,
          clean_target,
          clean_pc, directories, idx, success_dirs, total_files,
          clean_error_messages, final_text, reclaimLog, ALIST_OFFLINE_DIRS,
          current_download_dir_index, current_download_dir, config_reply>>

reclaimVars == <<SIZE_THRESHOLD, fs, fs0, pc, files_to_delete, dir_files,
                 total_deleted_files, file_error_messages, empty_dirs,
                 total_deleted, error_messages, result, listLog, removeLog,
                 reclaim_root>>

configVars == <<ALIST_OFFLINE_DIRS, current_download_dir_index,
                current_download_dir, config_reply>>

cleanVars == <<current_dir, clean_target, clean_pc, directories, idx, success_dirs,
               total_files, clean_error_messages, final_text, reclaimLog,
               configVars>>

parseVars == <<raw_result, size_str, size_result>>

selectVars == <<parsed_entries, selected, parseVars>>

None == "None"

----------------------------------------------------------------------------
(* Sequences *)

Range(s) == {s[i] : i \in 1..Len(s)}

RECURSIVE SumLen(_)
SumLen(s) == IF s = <<>> THEN 0 ELSE Len(Head(s).names) + SumLen(Tail(s))

----------------------------------------------------------------------------
(* The remote tree *)

\* The size threshold when the feature is on, in the unit of the file sizes.
ThresholdOn == 2

Root == <<"r">>

\* A name made of whitespace only, which str.strip() empties.
Blank == " "

\* The order in which a listing shows the children of a directory.
NameOrder == <<"w", "a", "b", "c", "x", "y", "z", Blank, "v">>

PossibleDirs == {<<"r", "a">>, <<"r", "b">>, <<"r", "a", "c">>, <<"r", "b", Blank>>}

\* The sizes each possible file may have.
PossibleFiles ==
    (<<"r", "w">> :> {ThresholdOn - 1}) @@
    (<<"r", "a", "x">> :> {ThresholdOn - 1, ThresholdOn, ThresholdOn + 1}) @@
    (<<"r", "a", "y">> :> {ThresholdOn - 1}) @@
    (<<"r", "b", "z">> :> {ThresholdOn - 1, ThresholdOn + 1}) @@
    (<<"r", "b", Blank, "v">> :> {ThresholdOn - 1, ThresholdOn + 1})

\* os.path.dirname, os.path.basename
dirname(path) == SubSeq(path, 1, Len(path) - 1)
basename(path) == path[Len(path)]

IsPrefix(p, q) == Len(p) <= Len(q) /\ SubSeq(q, 1, Len(p)) = p

WellFormed(dirs, files) ==
    /\ \A d \in dirs : d = Root \/ dirname(d) \in dirs
    /\ \A f \in DOMAIN files : dirname(f) \in dirs

AllSizes == UNION {PossibleFiles[f] : f \in DOMAIN PossibleFiles}

FileMaps ==
    UNION {{g \in [F -> AllSizes] : \A f \in F : g[f] \in PossibleFiles[f]} :
           F \in SUBSET DOMAIN PossibleFiles}

\* The trees the backend may hold when a reclaim starts.
Trees ==
    {t \in [dirs : {D \cup {Root} : D \in SUBSET PossibleDirs}, files : FileMaps] :
        WellFormed(t.dirs, t.files)}

\* The "content" of a successful /api/fs/list answer for path, bot.py:263.
ListContent(tree, path) ==
    LET shown(name) == Append(path, name) \in tree.dirs \cup DOMAIN tree.files
        names == SelectSeq(NameOrder, shown)
    IN [i \in 1..Len(names) |->
           LET child == Append(path, names[i])
           IN IF child \in tree.dirs
              THEN [name |-> names[i], is_dir |-> TRUE, size |-> 0]
              ELSE [name |-> names[i], is_dir |-> FALSE, size |-> tree.files[child]]]

\* A listing answers with code 200 when the directory exists and the request
\* does not fail (bot.py:255-261, 310-316); fail is the set of paths whose
\* listing fails in this walk.
ListOk(tree, fail, path) == path \in tree.dirs /\ path \notin fail

\* What a successful remove request does to the tree: the named children of
\* dir are removed, directories with all they hold.
Removed(tree, dir, names) ==
    LET gone(p) == \E i \in 1..Len(names) : IsPrefix(Append(dir, names[i]), p)
    IN [dirs |-> {d \in tree.dirs : ~gone(d)},
        files |-> [f \in {g \in DOMAIN tree.files : ~gone(g)} |-> tree.files[f]]]

\* The answers to a remove request that the code tells apart (bot.py:421-437):
\* "ok", HTTP 200 with code 200; "app_error", HTTP 200 with another code;
\* "request_error", an HTTP error status, a network error or another
\* exception, each caught with an error entry; "other_status", a status that
\* is neither 200 nor an error status, for which raise_for_status() does
\* nothing.  Only "ok" changes the tree.
RemoveOutcomes == {"ok", "app_error", "request_error", "other_status"}

----------------------------------------------------------------------------
(* Names and paths *)

\* str.strip() on an entry's name, bot.py:271 and 326
Strip(name) == IF name = Blank THEN "" ELSE name

\* "/".join([current_path.rstrip("/"), file_name.lstrip("/")]), bot.py:277
JoinPath(current_path, file_name) == Append(current_path, file_name)

----------------------------------------------------------------------------
(* The walks *)

\* WalkDisabled that never holds: the walk lists whatever the threshold.
WalkNeverDisabled(threshold) == FALSE

\* bot.py:243: the walk for undersized files is off.
WalkDisabled(threshold) == threshold = 0

\* Undersized with the bound included.
UndersizedOrEqual(file_size, threshold) == file_size <= threshold

\* bot.py:283
Undersized(file_size, threshold) == file_size < threshold

LogEntry(walk, path, ok, content) ==
    [walk |-> walk, path |-> path, ok |-> ok, content |-> content]

\* recursive_collect_files, bot.py:241-296: the files collected and the
\* listing requests made.
RECURSIVE recursive_collect_files(_, _, _, _)
recursive_collect_files(tree, threshold, fail, current_path) ==
    IF WalkDisabled(threshold) THEN [files |-> <<>>, listed |-> <<>>]
    ELSE IF ~ListOk(tree, fail, current_path)
    THEN [files |-> <<>>, listed |-> <<LogEntry("A", current_path, FALSE, <<>>)>>]
    ELSE
      LET content == ListContent(tree, current_path)
          step[i \in 0..Len(content)] ==
            IF i = 0
            THEN [files |-> <<>>,
                  listed |-> <<LogEntry("A", current_path, TRUE, content)>>]
            ELSE
              LET acc == step[i - 1]
                  item == content[i]
                  file_name == Strip(item.name)
                  full_path == JoinPath(current_path, file_name)
              IN IF file_name = "" THEN acc
                 ELSE IF item.is_dir
                 THEN LET sub == recursive_collect_files(tree, threshold, fail, full_path)
                      IN [files |-> acc.files \o sub.files,
                          listed |-> acc.listed \o sub.listed]
                 ELSE IF Undersized(item.size, threshold)
                 THEN [acc EXCEPT !.files = Append(@, full_path)]
                 ELSE acc
      IN step[Len(content)]

\* recursive_collect_empty_dirs, bot.py:298-345
RECURSIVE recursive_collect_empty_dirs(_, _, _)
recursive_collect_empty_dirs(tree, fail, current_path) ==
    IF ~ListOk(tree, fail, current_path)
    THEN [dirs |-> <<>>, listed |-> <<LogEntry("B", current_path, FALSE, <<>>)>>]
    ELSE
      LET content == ListContent(tree, current_path)
          named(item) == Strip(item.name) # "" /\ item.is_dir
          sub_items == SelectSeq(content, named)
          sub_dirs == [i \in 1..Len(sub_items) |->
                          JoinPath(current_path, Strip(sub_items[i].name))]
          step[i \in 0..Len(sub_dirs)] ==
            IF i = 0
            THEN [dirs |-> <<>>,
                  listed |-> <<LogEntry("B", current_path, TRUE, content)>>]
            ELSE
              LET acc == step[i - 1]
                  sub == recursive_collect_empty_dirs(tree, fail, sub_dirs[i])
              IN [dirs |-> acc.dirs \o sub.dirs, listed |-> acc.listed \o sub.listed]
          walked == step[Len(sub_dirs)]
      IN IF sub_dirs = <<>> /\ ~\E i \in 1..Len(content) : ~content[i].is_dir
         THEN [walked EXCEPT !.dirs = Append(@, current_path)]
         ELSE walked

----------------------------------------------------------------------------
(* cleanup_small_files and cleanup_empty_dirs *)

\* GroupByParent without the grouping: one group for each collected path.
RECURSIVE GroupEachAlone(_, _)
GroupEachAlone(paths, groups) ==
    IF paths = <<>> THEN groups
    ELSE GroupEachAlone(Tail(paths),
             Append(groups, [dir |-> dirname(Head(paths)),
                             names |-> <<basename(Head(paths))>>]))

\* bot.py:405-409: the collected paths grouped by parent directory, the groups
\* in the order in which their first file was collected.
RECURSIVE GroupByParent(_, _)
GroupByParent(paths, groups) ==
    IF paths = <<>> THEN groups
    ELSE
      LET abs_path == Head(paths)
          parent_dir == dirname(abs_path)
          file_name == basename(abs_path)
          at == {i \in 1..Len(groups) : groups[i].dir = parent_dir}
      IN IF at = {}
         THEN GroupByParent(Tail(paths),
                  Append(groups, [dir |-> parent_dir, names |-> <<file_name>>]))
         ELSE GroupByParent(Tail(paths),
                  [groups EXCEPT ![CHOOSE i \in at : TRUE].names = Append(@, file_name)])

\* The entry a failed remove request leaves in the caller's error list
\* (bot.py:428-437, 371-378): the base name of the target and the reason.
ErrorEntry(target, outcome) == [target |-> basename(target), reason |-> outcome]

\* bot.py:421-437 and 365-378: which answers count as deleted, which add an
\* error entry.
CountsAsDeleted(outcome) == outcome = "ok"
AddsError(outcome) == outcome \in {"app_error", "request_error"}

\* What cleanup_empty_dirs returns, bot.py:351-352 and 380-386.
DirOutcome(deleted, errors) ==
    IF errors # <<>>
    THEN [deleted |-> deleted, kind |-> "dirs_partly_failed", errors |-> errors]
    ELSE [deleted |-> deleted, kind |-> "dirs_deleted", errors |-> <<>>]

NoEmptyDirs == [deleted |-> 0, kind |-> "no_empty_dirs", errors |-> <<>>]

\* The message does not quote dir_msg.
NoDirMsg == [deleted |-> 0, kind |-> "absent", errors |-> <<>>]

\* The text cleanup_small_files returns, by the template it is built from:
\* the counts of files and of directories it states (0 when it states none),
\* the file errors it lists (the first three and their number) and the
\* message of cleanup_empty_dirs it quotes.
Msg(kind, files, dirs, errors, dir_msg) ==
    [kind |-> kind, files |-> files, dirs |-> dirs, errors |-> errors,
     dir_msg |-> dir_msg]

\* bot.py:441-468: the value cleanup_small_files returns after both phases.
Compose(deleted_files, file_errors, dir_outcome) ==
    LET total_deleted_dirs == dir_outcome.deleted
        dir_msg == dir_outcome
    IN IF file_errors # <<>> /\ deleted_files = 0 /\ total_deleted_dirs = 0
       THEN [deleted |-> 0,
             msg |-> Msg("failed", 0, 0, file_errors, NoDirMsg)]
       ELSE IF deleted_files > 0 \/ total_deleted_dirs > 0
       THEN IF total_deleted_dirs > 0
            THEN IF file_errors # <<>>
                 THEN [deleted |-> deleted_files,
                       msg |-> Msg("files_partly_failed_with_dirs", deleted_files,
                                   total_deleted_dirs, file_errors, NoDirMsg)]
                 ELSE [deleted |-> deleted_files,
                       msg |-> Msg("files_and_dirs_deleted", deleted_files,
                                   total_deleted_dirs, <<>>, NoDirMsg)]
            ELSE IF file_errors # <<>>
                 THEN [deleted |-> deleted_files,
                       msg |-> Msg("files_partly_failed", deleted_files, 0,
                                   file_errors, NoDirMsg)]
                 ELSE [deleted |-> deleted_files,
                       msg |-> Msg("files_deleted", deleted_files, 0, <<>>, dir_msg)]
       ELSE [deleted |-> 0, msg |-> Msg("no_small_files", 0, 0, <<>>, dir_msg)]

\* bot.py:394 and 403
Disabled == [deleted |-> 0, msg |-> Msg("disabled", 0, 0, <<>>, NoDirMsg)]
NoSmallFiles == [deleted |-> 0, msg |-> Msg("no_small_files", 0, 0, <<>>, NoDirMsg)]

\* Nothing returned yet.
NoResult == [deleted |-> 0, msg |-> Msg("pending", 0, 0, <<>>, NoDirMsg)]

\* bot.py:391-409: the threshold check, the walk for undersized files and the
\* grouping.
cleanup_small_files_begin(fail) ==
    /\ pc = "start"
    /\ IF SIZE_THRESHOLD = 0
       THEN /\ result' = Disabled
            /\ pc' = "done"
            /\ UNCHANGED <<files_to_delete, dir_files, listLog>>
       ELSE LET walk == recursive_collect_files(fs, SIZE_THRESHOLD, fail, reclaim_root)
            IN /\ files_to_delete' = walk.files
               /\ listLog' = listLog \o walk.listed
               /\ IF walk.files = <<>>
                  THEN /\ result' = NoSmallFiles
                       /\ pc' = "done"
                       /\ UNCHANGED dir_files
                  ELSE /\ dir_files' = GroupByParent(walk.files, <<>>)
                       /\ pc' = "files"
                       /\ UNCHANGED result
    /\ UNCHANGED <<SIZE_THRESHOLD, fs, fs0, total_deleted_files, file_error_messages,
                   empty_dirs, total_deleted, error_messages, removeLog>>
    /\ UNCHANGED <<reclaim_root, selectVars, cleanVars>>

\* delete_file_batch with a failed batch entered twice in the failure list.
delete_file_batch_twice(outcome) ==
    /\ pc = "files"
    /\ dir_files # <<>>
    /\ LET parent_dir == Head(dir_files).dir
           file_names == Head(dir_files).names
       IN /\ removeLog' = Append(removeLog, [phase |-> "files", dir |-> parent_dir,
                                             names |-> file_names, outcome |-> outcome])
          /\ fs' = IF outcome = "ok" THEN Removed(fs, parent_dir, file_names) ELSE fs
          /\ total_deleted_files' =
                IF CountsAsDeleted(outcome)
                THEN total_deleted_files + Len(file_names) ELSE total_deleted_files
          /\ file_error_messages' =
                IF AddsError(outcome)
                THEN file_error_messages \o <<ErrorEntry(parent_dir, outcome),
                                              ErrorEntry(parent_dir, outcome)>>
                ELSE file_error_messages
    /\ dir_files' = Tail(dir_files)
    /\ pc' = IF Tail(dir_files) = <<>> THEN "dirs" ELSE "files"
    /\ UNCHANGED <<SIZE_THRESHOLD, fs0, files_to_delete, empty_dirs, total_deleted,
                   error_messages, result, listLog>>
    /\ UNCHANGED <<reclaim_root, selectVars, cleanVars>>

\* bot.py:414-437: one turn of the loop over the directory groups.
delete_file_batch(outcome) ==
    /\ pc = "files"
    /\ dir_files # <<>>
    /\ LET parent_dir == Head(dir_files).dir
           file_names == Head(dir_files).names
       IN /\ removeLog' = Append(removeLog, [phase |-> "files", dir |-> parent_dir,
                                             names |-> file_names, outcome |-> outcome])
          /\ fs' = IF outcome = "ok" THEN Removed(fs, parent_dir, file_names) ELSE fs
          /\ total_deleted_files' =
                IF CountsAsDeleted(outcome)
                THEN total_deleted_files + Len(file_names) ELSE total_deleted_files
          /\ file_error_messages' =
                IF AddsError(outcome)
                THEN Append(file_error_messages, ErrorEntry(parent_dir, outcome))
                ELSE file_error_messages
    /\ dir_files' = Tail(dir_files)
    /\ pc' = IF Tail(dir_files) = <<>> THEN "dirs" ELSE "files"
    /\ UNCHANGED <<SIZE_THRESHOLD, fs0, files_to_delete, empty_dirs, total_deleted,
                   error_messages, result, listLog>>
    /\ UNCHANGED <<reclaim_root, selectVars, cleanVars>>

\* cleanup_empty_dirs_begin walking the tree as it was before the file batches.
cleanup_empty_dirs_begin_stale(fail) ==
    /\ pc = "dirs"
    /\ LET walk == recursive_collect_empty_dirs(fs0, fail, reclaim_root)
       IN /\ listLog' = listLog \o walk.listed
          /\ empty_dirs' = walk.dirs
          /\ IF walk.dirs = <<>>
             THEN /\ result' = Compose(total_deleted_files, file_error_messages,
                                       NoEmptyDirs)
                  /\ pc' = "done"
             ELSE /\ pc' = "dir_deletes"
                  /\ UNCHANGED result
    /\ UNCHANGED <<SIZE_THRESHOLD, fs, fs0, files_to_delete, dir_files,
                   total_deleted_files, file_error_messages, total_deleted,
                   error_messages, removeLog>>
    /\ UNCHANGED <<reclaim_root, selectVars, cleanVars>>

\* bot.py:439 and 347-352: the walk for empty directories; with none found
\* cleanup_empty_dirs returns and cleanup_small_files composes its result.
cleanup_empty_dirs_begin(fail) ==
    /\ pc = "dirs"
    /\ LET walk == recursive_collect_empty_dirs(fs, fail, reclaim_root)
       IN /\ listLog' = listLog \o walk.listed
          /\ empty_dirs' = walk.dirs
          /\ IF walk.dirs = <<>>
             THEN /\ result' = Compose(total_deleted_files, file_error_messages,
                                       NoEmptyDirs)
                  /\ pc' = "done"
             ELSE /\ pc' = "dir_deletes"
                  /\ UNCHANGED result
    /\ UNCHANGED <<SIZE_THRESHOLD, fs, fs0, files_to_delete, dir_files,
                   total_deleted_files, file_error_messages, total_deleted,
                   error_messages, removeLog>>
    /\ UNCHANGED <<reclaim_root, selectVars, cleanVars>>

\* delete_empty_dir without the returns after the last directory.
delete_empty_dir_no_return(outcome) ==
    /\ pc = "dir_deletes"
    /\ empty_dirs # <<>>
    /\ LET dir_path == Head(empty_dirs)
           deleted == IF CountsAsDeleted(outcome) THEN total_deleted + 1
                      ELSE total_deleted
           errors == IF AddsError(outcome)
                     THEN Append(error_messages, ErrorEntry(dir_path, outcome))
                     ELSE error_messages
       IN /\ removeLog' = Append(removeLog, [phase |-> "dirs", dir |-> dirname(dir_path),
                                             names |-> <<basename(dir_path)>>,
                                             outcome |-> outcome])
          /\ fs' = IF outcome = "ok"
                   THEN Removed(fs, dirname(dir_path), <<basename(dir_path)>>) ELSE fs
          /\ total_deleted' = deleted
          /\ error_messages' = errors
          /\ pc' = "dir_deletes"
          /\ UNCHANGED result
    /\ empty_dirs' = Tail(empty_dirs)
    /\ UNCHANGED <<SIZE_THRESHOLD, fs0, files_to_delete, dir_files,
                   total_deleted_files, file_error_messages, listLog>>
    /\ UNCHANGED <<reclaim_root, selectVars, cleanVars>>

\* bot.py:356-386 and 441-468: one turn of the loop over the empty
\* directories; after the last one both functions return.
delete_empty_dir(outcome) ==
    /\ pc = "dir_deletes"
    /\ empty_dirs # <<>>
    /\ LET dir_path == Head(empty_dirs)
           deleted == IF CountsAsDeleted(outcome) THEN total_deleted + 1
                      ELSE total_deleted
           errors == IF AddsError(outcome)
                     THEN Append(error_messages, ErrorEntry(dir_path, outcome))
                     ELSE error_messages
       IN /\ removeLog' = Append(removeLog, [phase |-> "dirs", dir |-> dirname(dir_path),
                                             names |-> <<basename(dir_path)>>,
                                             outcome |-> outcome])
          /\ fs' = IF outcome = "ok"
                   THEN Removed(fs, dirname(dir_path), <<basename(dir_path)>>) ELSE fs
          /\ total_deleted' = deleted
          /\ error_messages' = errors
          /\ IF Tail(empty_dirs) = <<>>
             THEN /\ result' = Compose(total_deleted_files, file_error_messages,
                                       DirOutcome(deleted, errors))
                  /\ pc' = "done"
             ELSE /\ pc' = "dir_deletes"
                  /\ UNCHANGED result
    /\ empty_dirs' = Tail(empty_dirs)
    /\ UNCHANGED <<SIZE_THRESHOLD, fs0, files_to_delete, dir_files,
                   total_deleted_files, file_error_messages, listLog>>
    /\ UNCHANGED <<reclaim_root, selectVars, cleanVars>>

\* What cleanup_small_files returns from its handler of unexpected errors,
\* bot.py:469-471.
SystemError == [deleted |-> 0, msg |-> Msg("system_error", 0, 0, <<>>, NoDirMsg)]

\* The task that runs the reclaim is cancelled while it awaits a listing of
\* one of the walks (bot.py:247-249, 306-309): asyncio.CancelledError is not an
\* Exception, no handler of the reclaim catches it and nothing is returned.
\* The remove requests are not awaited, so no cancellation falls among them.
cancel_reclaim ==
    /\ pc \in {"start", "dirs"}
    /\ SIZE_THRESHOLD # 0
    /\ pc' = "cancelled"
    /\ UNCHANGED <<SIZE_THRESHOLD, fs, fs0, files_to_delete, dir_files,
                   total_deleted_files, file_error_messages, empty_dirs,
                   total_deleted, error_messages, result, listLog, removeLog>>
    /\ UNCHANGED <<reclaim_root, selectVars, cleanVars>>

\* An Exception is raised in the body of cleanup_small_files outside the
\* handlers of a batch, between two batches or before phase 2: the handler at
\* bot.py:469-471 returns.
unexpected_error ==
    /\ pc \in {"files", "dirs"}
    /\ result' = SystemError
    /\ pc' = "done"
    /\ UNCHANGED <<SIZE_THRESHOLD, fs, fs0, files_to_delete, dir_files,
                   total_deleted_files, file_error_messages, empty_dirs,
                   total_deleted, error_messages, listLog, removeLog>>
    /\ UNCHANGED <<reclaim_root, selectVars, cleanVars>>

----------------------------------------------------------------------------
(* get_magnet *)

\* The bound on the number of parsed entries of one search.
MaxEntries == 4

SizeChoices == {30, 69, 70, 95, 100}

\* upload_date, bot.py:128-133: None or a date.
DateChoices == {None, "2023-01-01", "2024-06-01"}

\* date.toordinal()
ToOrdinal(date) == IF date = "2023-01-01" THEN 738521 ELSE 739038

\* The magnet of the i-th record of the search data.
MagnetOf(i) == <<"magnet:?1", "magnet:?2", "magnet:?3", "magnet:?4", "magnet:?5",
                 "magnet:?6">>[i]

Candidates == SizeChoices \X DateChoices

MaxOf(S) == CHOOSE m \in S : \A n \in S : n <= m

\* x["date"].toordinal() if x["date"] else 0, bot.py:182
DateOrdinal(date) == IF date = None THEN 0 ELSE ToOrdinal(date)

\* bot.py:177-178. max_size * 0.7 is a float product; for byte counts below
\* 2^45 the comparison size >= max_size * 0.7 decides as 10 * size >= 7 * max_size.
InCluster(size_bytes, max_size) == 10 * size_bytes >= 7 * max_size

\* KeyLess with the dates compared the other way round (earliest first).
KeyLessOldestFirst(x, y) ==
    \/ x.size_bytes < y.size_bytes
    \/ /\ x.size_bytes = y.size_bytes
       /\ DateOrdinal(x.date) < DateOrdinal(y.date)

\* The order of the sort keys (size_bytes, -ordinal), bot.py:181-182.
KeyLess(x, y) ==
    \/ x.size_bytes < y.size_bytes
    \/ /\ x.size_bytes = y.size_bytes
       /\ (0 - DateOrdinal(x.date)) < (0 - DateOrdinal(y.date))

\* list.sort is stable: an entry goes behind the entries whose key is not greater.
RECURSIVE InsertSorted(_, _)
InsertSorted(sorted, x) ==
    IF sorted = <<>> THEN <<x>>
    ELSE IF KeyLess(x, Head(sorted)) THEN <<x>> \o sorted
    ELSE <<Head(sorted)>> \o InsertSorted(Tail(sorted), x)

RECURSIVE SortEntries(_)
SortEntries(entries) ==
    IF entries = <<>> THEN <<>>
    ELSE InsertSorted(SortEntries(SubSeq(entries, 1, Len(entries) - 1)),
                      entries[Len(entries)])

\* SelectMagnet without the sort: the first entry of the cluster in data order.
SelectUnsorted(entries) ==
    LET max_size == MaxOf({entries[i].size_bytes : i \in 1..Len(entries)})
        near(e) == InCluster(e.size_bytes, max_size)
        filtered == SelectSeq(entries, near)
        selected_cluster == IF filtered # <<>> THEN filtered ELSE entries
    IN selected_cluster[1].magnet

\* bot.py:176-184: the magnet get_magnet returns for parsed entries (not empty).
SelectMagnet(entries) ==
    LET max_size == MaxOf({entries[i].size_bytes : i \in 1..Len(entries)})
        near(e) == InCluster(e.size_bytes, max_size)
        filtered == SelectSeq(entries, near)
        selected_cluster == IF filtered # <<>> THEN filtered ELSE entries
    IN SortEntries(selected_cluster)[1].magnet

NotSelected == [magnet |-> None, error |-> None]

\* bot.py:168-171: one more record of the search data passes parsing.
parse_entry(size_bytes, date) ==
    /\ selected = NotSelected
    /\ Len(parsed_entries) < MaxEntries
    /\ parsed_entries' = Append(parsed_entries,
                                [magnet |-> MagnetOf(Len(parsed_entries) + 1),
                                 size_bytes |-> size_bytes, date |-> date])
    /\ UNCHANGED selected
    /\ UNCHANGED parseVars
    /\ UNCHANGED <<reclaimVars, cleanVars>>

\* bot.py:173-184: the answer of get_magnet once the data is parsed.
get_magnet ==
    /\ selected = NotSelected
    /\ selected' = IF parsed_entries = <<>>
                   THEN [magnet |-> None, error |-> "no_valid_magnet"]
                   ELSE [magnet |-> SelectMagnet(parsed_entries), error |-> None]
    /\ UNCHANGED parsed_entries
    /\ UNCHANGED parseVars
    /\ UNCHANGED <<reclaimVars, cleanVars>>

----------------------------------------------------------------------------
(* parse_size_to_bytes *)

\* A size token of a search record as Python holds it: its type and, for a
\* str, its text.  The text is empty, or words, or a number followed by a
\* unit; the number is the digits of n with `dots` decimal points in it, the
\* last `scale` digits behind the point: n = 540, scale = 2, dots = 1, unit =
\* "GB" is "5.40GB", and two points make a text like "5.4.0GB".
SizeToken(type, form, n, scale, dots, unit) ==
    [type |-> type, form |-> form, n |-> n, scale |-> scale, dots |-> dots,
     unit |-> unit]

EmptySize == SizeToken("str", "empty", 0, 0, 0, "")
WordsSize == SizeToken("str", "words", 0, 0, 0, "")
NoneSize == SizeToken("NoneType", "none", 0, 0, 0, "")
IntSize(n) == SizeToken("int", "int", n, 0, 0, "")
NumberUnit(n, scale, dots, unit) == SizeToken("str", "number_unit", n, scale, dots, unit)

\* `not size_str`, bot.py:77: None, the empty text and the integer 0.
Falsy(size) ==
    \/ size.type = "NoneType"
    \/ size.type = "str" /\ size.form = "empty"
    \/ size.type = "int" /\ size.n = 0

\* size_str.upper(), bot.py:80, on the unit.
Upper(unit) ==
    CASE unit = "b" -> "B"
      [] unit = "kb" -> "KB"
      [] unit = "mb" -> "MB"
      [] unit = "gb" -> "GB"
      [] unit = "tb" -> "TB"
      [] OTHER -> unit

\* The units of the pattern [KMGTPEZY]?B, bot.py:81.
PatternUnits == {"B", "KB", "MB", "GB", "TB", "PB", "EB", "ZB", "YB"}

\* re.match(r'^([\d.]+)\s*([KMGTPEZY]?B)$', size_str), bot.py:81.
MatchesPattern(size) == size.form = "number_unit" /\ Upper(size.unit) \in PatternUnits

\* float(value), bot.py:88, raises ValueError for a text with two points.
FloatParses(size) == size.dots <= 1

\* bot.py:94-102
ExponentOf(unit) ==
    CASE unit = "KB" -> 1
      [] unit = "MB" -> 2
      [] unit = "GB" -> 3
      [] unit = "TB" -> 4
      [] OTHER -> 0

RECURSIVE Pow10(_)
Pow10(k) == IF k = 0 THEN 1 ELSE 10 * Pow10(k - 1)

\* value * (1024 ** exponent), bot.py:104, for the value q + r / 10^scale, as
\* whole part and remainder.  The product of a float and a power of two is
\* exact, and float(value) is within 2^-53 of the decimal value, so for
\* products below 2^31 and scale <= 3 the float has the whole part computed
\* here (a decimal product that is not whole is at least 1/125 away from one).
RECURSIVE TimesPow1024(_, _, _, _)
TimesPow1024(q, r, scale, exponent) ==
    IF exponent = 0 THEN [q |-> q, r |-> r, scale |-> scale]
    ELSE TimesPow1024(q * 1024 + (r * 1024) \div Pow10(scale),
                      (r * 1024) % Pow10(scale), scale, exponent - 1)

\* round(product): to the nearest integer, a half to the even one.
RoundHalfEven(product) ==
    IF \/ 2 * product.r > Pow10(product.scale)
       \/ 2 * product.r = Pow10(product.scale) /\ product.q % 2 = 1
    THEN product.q + 1 ELSE product.q

\* int(product), bot.py:104: the whole part (no size is negative).
Truncate(product) == product.q

\* What parse_size_to_bytes returns or raises.
SizeReturn(kind, value) == [kind |-> kind, value |-> value]

\* bot.py:75-104.  A token that is not text and not falsy has no upper().
parse_size_to_bytes(size) ==
    IF Falsy(size) THEN SizeReturn("int", 0)
    ELSE IF size.type # "str" THEN SizeReturn("AttributeError", 0)
    ELSE IF ~MatchesPattern(size) THEN SizeReturn("None", 0)
    ELSE IF ~FloatParses(size) THEN SizeReturn("None", 0)
    ELSE SizeReturn("int",
             Truncate(TimesPow1024(size.n \div Pow10(size.scale),
                                   size.n % Pow10(size.scale), size.scale,
                                   ExponentOf(Upper(size.unit)))))

\* The tokens parse_size_to_bytes is applied to.
SizeNumbers == {0, 1, 3, 5, 15, 100, 540, 1999}
SizeUnits == {"B", "KB", "MB", "GB", "TB", "PB", "gb", "kb", "XB", ""}

NumberTexts ==
    {<<n, 0, 0>> : n \in SizeNumbers}
        \cup {<<n, k, 1>> : n \in SizeNumbers, k \in 1..3}
        \cup {<<n, 1, 2>> : n \in SizeNumbers}

\* The value in thousandths, and the largest one whose byte count is below 2^31.
Milli(n, scale) == n * Pow10(3 - scale)
MaxMilli(exponent) ==
    CASE exponent = 4 -> 1
      [] exponent = 3 -> 1999
      [] OTHER -> 2047000

SizeTokens ==
    {EmptySize, WordsSize, NoneSize, IntSize(0), IntSize(7)}
        \cup {NumberUnit(x[1], x[2], x[3], u) : x \in NumberTexts, u \in SizeUnits}

FittingSizeTokens ==
    {size \in SizeTokens :
        Milli(size.n, size.scale) <= MaxMilli(ExponentOf(Upper(size.unit)))}

NotParsed == SizeReturn("pending", 0)

\* One call of parse_size_to_bytes.
parse_size ==
    /\ size_result = NotParsed
    /\ size_result' = parse_size_to_bytes(size_str)
    /\ UNCHANGED <<size_str, raw_result, parsed_entries, selected>>
    /\ UNCHANGED <<reclaimVars, cleanVars>>

\* No answer of the search service yet.
NoResponse == [http |-> "none", status |-> "none", message |-> "none", data |-> <<>>]

----------------------------------------------------------------------------
(* parse_api_data_entry and the whole of get_magnet *)

\* The bound on the number of records of one search.
MaxData == 3

\* A locator or a date token of a search record as Python holds it.
Token(type, text) == [type |-> type, text |-> text]

NoneToken == Token("NoneType", "")

\* `not magnet`, `if date_str`, bot.py:119 and 130.
FalsyToken(token) ==
    \/ token.type = "NoneType"
    \/ token.type = "str" /\ token.text = ""
    \/ token.type = "int" /\ token.text = "0"

\* What ast.literal_eval makes of a record of the search data, bot.py:109: a
\* list of four elements or more ("list") with its first, third and fourth
\* element, a shorter list, another value, or no literal at all.
RawEntry(shape, magnet, size, date) ==
    [shape |-> shape, magnet |-> magnet, size |-> size, date |-> date]

\* Every text passes for a magnet.
StartsWithAnything(text) == text = text

\* magnet.startswith("magnet:?"), bot.py:119 and 170.
StartsWithMagnet(text) == text \in {MagnetOf(i) : i \in 1..6}

\* datetime.strptime(date_str, '%Y-%m-%d') succeeds, bot.py:131.
StrptimeParses(text) == text \in DateChoices \ {None}

\* What parse_api_data_entry returns or raises.
ParsedAs(kind, magnet, size_bytes, date) ==
    [kind |-> kind, magnet |-> magnet, size_bytes |-> size_bytes, date |-> date]

ReturnsNone == ParsedAs("None", None, 0, None)
RaisesAttributeError == ParsedAs("AttributeError", None, 0, None)

\* bot.py:106-146.  A truthy locator or size token that is not text has no
\* startswith() or upper(): the AttributeError is not among the exceptions
\* caught at bot.py:144.  strptime raises TypeError for a date token that is
\* not text, which is caught there.
parse_api_data_entry(entry) ==
    IF entry.shape # "list" THEN ReturnsNone
    ELSE IF FalsyToken(entry.magnet) THEN ReturnsNone
    ELSE IF entry.magnet.type # "str" THEN RaisesAttributeError
    ELSE IF ~StartsWithMagnet(entry.magnet.text) THEN ReturnsNone
    ELSE LET size_bytes == parse_size_to_bytes(entry.size)
         IN IF size_bytes.kind = "AttributeError" THEN RaisesAttributeError
            ELSE IF size_bytes.kind = "None" THEN ReturnsNone
            ELSE IF FalsyToken(entry.date)
            THEN ParsedAs("dict", entry.magnet.text, size_bytes.value, None)
            ELSE IF entry.date.type # "str" THEN ReturnsNone
            ELSE IF StrptimeParses(entry.date.text)
            THEN ParsedAs("dict", entry.magnet.text, size_bytes.value, entry.date.text)
            ELSE ParsedAs("dict", entry.magnet.text, size_bytes.value, None)

\* bot.py:167-171: the entries appended until the data ends or a call raises.
RECURSIVE ParseData(_, _)
ParseData(data, entries) ==
    IF data = <<>> THEN [entries |-> entries, raised |-> FALSE]
    ELSE LET parsed == parse_api_data_entry(Head(data))
         IN IF parsed.kind = "AttributeError"
            THEN [entries |-> entries, raised |-> TRUE]
            ELSE IF parsed.kind = "dict"
            THEN ParseData(Tail(data),
                     Append(entries, [magnet |-> parsed.magnet,
                                      size_bytes |-> parsed.size_bytes,
                                      date |-> parsed.date]))
            ELSE ParseData(Tail(data), entries)

\* No message counts as naming a resource that was not found.
NoMessageWithNotFound == {}

\* "not found" in error_type.lower(), bot.py:160.
MessagesWithNotFound == {"Not Found"}

\* The pair get_magnet returns: the error names the text of the message.
Answer(magnet, error) == [magnet |-> magnet, error |-> error]

\* bot.py:148-197: the request, the checks of the response, the parsing of
\* the data, the selection and the exception handlers.
get_magnet_request ==
    /\ selected = NotSelected
    /\ raw_result.http # "none"
    /\ LET loop == ParseData(raw_result.data, <<>>)
           reached == raw_result.http = "ok" /\ raw_result.status = "succeed"
                         /\ raw_result.data # <<>>
       IN /\ parsed_entries' = IF reached THEN loop.entries ELSE <<>>
          /\ selected' =
                CASE raw_result.http = "timeout" -> Answer(None, "search_timeout")
                  [] raw_result.http \in {"http_404", "http_500"} ->
                        Answer(None, "does_not_exist")
                  [] raw_result.http = "http_403" -> Answer(None, "service_error_http")
                  [] raw_result.http = "bad_json" -> Answer(None, "unexpected_error")
                  [] OTHER ->
                        IF raw_result.status # "succeed"
                        THEN IF raw_result.message \in MessagesWithNotFound
                             THEN Answer(None, "not_found")
                             ELSE Answer(None, "service_error")
                        ELSE IF raw_result.data = <<>>
                        THEN Answer(None, "no_magnet_yet")
                        ELSE IF loop.raised THEN Answer(None, "unexpected_error")
                        ELSE IF loop.entries = <<>>
                        THEN Answer(None, "no_valid_magnet")
                        ELSE Answer(SelectMagnet(loop.entries), None)
    /\ UNCHANGED <<raw_result, size_str, size_result>>
    /\ UNCHANGED <<reclaimVars, cleanVars>>

\* The responses of the search service before any data: the request fails, or
\* it answers with a status and a message.
HttpFailures == {"timeout", "http_404", "http_500", "http_403", "bad_json"}
Statuses == {"succeed", "failed", "absent"}
Messages == {"absent", "Not Found", "server busy"}

SearchResponses ==
    {[http |-> h, status |-> "absent", message |-> "absent", data |-> <<>>] :
        h \in HttpFailures}
        \cup {[http |-> "ok", status |-> st, message |-> m, data |-> <<>>] :
                 st \in Statuses \ {"succeed"}, m \in Messages}
        \cup {[http |-> "ok", status |-> "succeed", message |-> "absent",
                data |-> <<>>]}

\* The records of the search data; a locator with the prefix is the one of
\* the record's position.
GoodSizes == {NumberUnit(70, 0, 0, "B"), NumberUnit(100, 0, 0, "B"),
              NumberUnit(1, 0, 0, "KB"), EmptySize}
BadSizes == {WordsSize, NumberUnit(100, 1, 2, "B"), NumberUnit(100, 0, 0, "XB"),
             NoneSize, IntSize(7)}
BadMagnets == {Token("str", "http://x"), Token("str", ""), NoneToken,
               Token("int", "7")}
OddDates == {Token("str", ""), Token("str", "01/06/2024"), NoneToken,
             Token("int", "20240601")}

EntriesAt(i) ==
    LET magnet == Token("str", MagnetOf(i))
        size == NumberUnit(100, 0, 0, "B")
        date == Token("str", "2024-06-01")
    IN {RawEntry("list", magnet, sz, Token("str", d)) :
            sz \in GoodSizes, d \in {"2023-01-01", "2024-06-01"}}
          \cup {RawEntry("list", magnet, size, d) : d \in OddDates}
          \cup {RawEntry("list", m, size, date) : m \in BadMagnets}
          \cup {RawEntry("list", magnet, sz, date) : sz \in BadSizes}
          \cup {RawEntry(shape, magnet, size, date) :
                   shape \in {"short_list", "not_list", "no_literal"}}

\* The search service has one more record in its data, bot.py:156.
data_entry(entry) ==
    /\ selected = NotSelected
    /\ raw_result.http = "ok" /\ raw_result.status = "succeed"
    /\ Len(raw_result.data) < MaxData
    /\ raw_result' = [raw_result EXCEPT !.data = Append(@, entry)]
    /\ UNCHANGED <<parsed_entries, selected, size_str, size_result>>
    /\ UNCHANGED <<reclaimVars, cleanVars>>

----------------------------------------------------------------------------
(* find_download_directory and clean_command *)

\* The characters of the names and of the arguments of /clean.
Chars(text) ==
    CASE text = "" -> <<>>
      [] text = Blank -> <<" ">>
      [] text = "-A" -> <<"-", "A">>
      [] text = "-" -> <<"-">>
      [] text = "ab" -> <<"a", "b">>
      [] OTHER -> <<text>>

\* re.sub(r'[^a-zA-Z0-9]', '', text).lower(), bot.py:493 and 499, character
\* by character.
RECURSIVE Normalized(_)
Normalized(chars) ==
    IF chars = <<>> THEN <<>>
    ELSE LET ch == Head(chars)
         IN IF ch \in {"-", " ", "/"} THEN Normalized(Tail(chars))
            ELSE <<IF ch = "A" THEN "a" ELSE ch>> \o Normalized(Tail(chars))

\* f"{parent_dir.rstrip('/')}/{dir_name}".replace('//', '/'), bot.py:501:
\* with an empty dir_name the path is parent_dir with a slash behind it.
FullPath(parent_dir, dir_name) ==
    IF dir_name = "" THEN parent_dir ELSE Append(parent_dir, dir_name)

\* bot.py:496-503: the loop over the listed items.
RECURSIVE PossibleMatches(_, _, _)
PossibleMatches(content, parent_dir, target_pattern) ==
    IF content = <<>> THEN <<>>
    ELSE LET item == Head(content)
             dir_name == Strip(item.name)
             normalized_dir == Normalized(Chars(dir_name))
             rest == PossibleMatches(Tail(content), parent_dir, target_pattern)
         IN IF item.is_dir /\ IsPrefix(target_pattern, normalized_dir)
            THEN <<FullPath(parent_dir, dir_name)>> \o rest
            ELSE rest

\* bot.py:473-508: the matches, or none with an error when the listing fails.
find_download_directory(tree, fail, parent_dir, original_code) ==
    IF ~ListOk(tree, fail, parent_dir)
    THEN [ok |-> FALSE, directories |-> <<>>,
          listed |-> LogEntry("find", parent_dir, FALSE, <<>>)]
    ELSE [ok |-> TRUE,
          directories |-> PossibleMatches(ListContent(tree, parent_dir), parent_dir,
                                          Normalized(Chars(original_code))),
          listed |-> LogEntry("find", parent_dir, TRUE, ListContent(tree, parent_dir))]

\* '❌' in msg, bot.py:707: the texts of cleanup_small_files that hold the
\* mark are the failure and those that quote the failure of cleanup_empty_dirs.
HasCross(msg) == msg.kind = "failed" \/ msg.dir_msg.kind = "dirs_partly_failed"

\* The first character of msg is '✅'.
StartsWithCheck(msg) == msg.kind # "failed"

\* A text clean_command replies: the template, the counts it states and the
\* directories and errors it lists.
Reply(kind, files, dirs, zero, listed, errors) ==
    [kind |-> kind, files |-> files, dirs |-> dirs, zero |-> zero,
     listed |-> listed, errors |-> errors]

NoReply == Reply("pending", 0, 0, 0, <<>>, <<>>)

\* bot.py:710-746.  The directories listed as without files to clean are
\* those not in [d for _, msg in zip(directories, msg) if '✅' in msg]: all of
\* them unless the last msg starts with '✅', none otherwise.
FinalText(success, files, all_dirs, errors, last_msg) ==
    LET total_dirs == Len(all_dirs)
        zero_dirs_count == total_dirs - success - Len(errors)
        listed == IF StartsWithCheck(last_msg) THEN <<>>
                  ELSE [i \in 1..Len(all_dirs) |-> basename(all_dirs[i])]
    IN IF success > 0 /\ zero_dirs_count = 0 /\ Len(errors) = 0
       THEN Reply("done", files, success, 0, <<>>, <<>>)
       ELSE IF success > 0 /\ zero_dirs_count = 0 /\ Len(errors) > 0
       THEN Reply("partly_failed", files, success, 0, <<>>, errors)
       ELSE IF success > 0 /\ zero_dirs_count > 0 /\ Len(errors) = 0
       THEN Reply("partly_nothing", files, success, zero_dirs_count, listed, <<>>)
       ELSE IF success > 0 /\ zero_dirs_count > 0 /\ Len(errors) > 0
       THEN Reply("partly_nothing_partly_failed", files, success, zero_dirs_count,
                  listed, errors)
       ELSE IF success = 0 /\ zero_dirs_count = 0 /\ Len(errors) > 0
       THEN Reply("failed", 0, 0, 0, <<>>, errors)
       ELSE IF success = 0 /\ zero_dirs_count > 0 /\ Len(errors) = 0
       THEN Reply("nothing", 0, total_dirs, zero_dirs_count, <<>>, <<>>)
       ELSE IF success = 0 /\ zero_dirs_count > 0 /\ Len(errors) > 0
       THEN Reply("nothing_and_failed", 0, 0, zero_dirs_count, listed, errors)
       ELSE Reply("partly", files, success, 0, <<>>, <<>>)

\* The call cleanup_small_files(token, BASE_URL, dir_path), up to its first
\* request.
StartReclaim(dir_path) ==
    /\ reclaim_root' = dir_path
    /\ reclaimLog' = Append(reclaimLog, dir_path)
    /\ pc' = "start"
    /\ fs0' = fs
    /\ files_to_delete' = <<>>
    /\ dir_files' = <<>>
    /\ total_deleted_files' = 0
    /\ file_error_messages' = <<>>
    /\ empty_dirs' = <<>>
    /\ total_deleted' = 0
    /\ error_messages' = <<>>
    /\ result' = NoResult

NoReclaim ==
    UNCHANGED <<reclaim_root, reclaimLog, pc, fs0, files_to_delete, dir_files,
                total_deleted_files, file_error_messages, empty_dirs,
                total_deleted, error_messages, result>>

\* bot.py:668-698: the checks of the threshold and of the argument, the
\* search for the directories and the call of cleanup_small_files for the
\* current directory ("/") or for the first match.
clean_command_begin(fail) ==
    /\ clean_pc = "start"
    /\ IF SIZE_THRESHOLD = 0
       THEN /\ final_text' = Reply("disabled", 0, 0, 0, <<>>, <<>>)
            /\ clean_pc' = "done"
            /\ NoReclaim
            /\ UNCHANGED <<directories, idx, listLog>>
       ELSE IF clean_target = None
       THEN /\ final_text' = Reply("usage", 0, 0, 0, <<>>, <<>>)
            /\ clean_pc' = "done"
            /\ NoReclaim
            /\ UNCHANGED <<directories, idx, listLog>>
       ELSE IF clean_target = "/"
       THEN /\ StartReclaim(current_dir)
            /\ clean_pc' = "global"
            /\ UNCHANGED <<final_text, directories, idx, listLog>>
       ELSE LET found == find_download_directory(fs, fail, current_dir, clean_target)
            IN /\ listLog' = Append(listLog, found.listed)
               /\ IF found.directories = <<>>
                  THEN /\ final_text' = Reply("find_failed", 0, 0, 0, <<>>, <<>>)
                       /\ clean_pc' = "done"
                       /\ NoReclaim
                       /\ UNCHANGED <<directories, idx>>
                  ELSE /\ directories' = found.directories
                       /\ idx' = 1
                       /\ StartReclaim(found.directories[1])
                       /\ clean_pc' = "loop"
                       /\ UNCHANGED final_text
    /\ UNCHANGED <<SIZE_THRESHOLD, fs, removeLog, current_dir, clean_target, success_dirs,
                   total_files, clean_error_messages>>
    /\ UNCHANGED configVars
    /\ UNCHANGED selectVars

\* bot.py:681-685: cleanup_small_files for the current directory returned.
clean_global_end ==
    /\ clean_pc = "global"
    /\ pc = "done"
    /\ final_text' = Reply("global_done", result.deleted, 0, 0, <<>>, <<result.msg>>)
    /\ clean_pc' = "done"
    /\ UNCHANGED <<current_dir, clean_target, directories, idx, success_dirs, total_files,
                   clean_error_messages, reclaimLog>>
    /\ UNCHANGED configVars
    /\ UNCHANGED reclaimVars
    /\ UNCHANGED selectVars

\* bot.py:703-748: cleanup_small_files for directories[idx] returned; its
\* result is counted and the next directory is cleaned, or the final text is
\* replied.
clean_directory_end ==
    /\ clean_pc = "loop"
    /\ pc = "done"
    /\ LET deleted == result.deleted
           msg == result.msg
           success == IF deleted > 0 THEN success_dirs + 1 ELSE success_dirs
           files == IF deleted > 0 THEN total_files + deleted ELSE total_files
           errors == IF HasCross(msg) THEN Append(clean_error_messages, msg)
                     ELSE clean_error_messages
       IN /\ success_dirs' = success
          /\ total_files' = files
          /\ clean_error_messages' = errors
          /\ IF idx < Len(directories)
             THEN /\ idx' = idx + 1
                  /\ StartReclaim(directories[idx + 1])
                  /\ UNCHANGED <<final_text, clean_pc>>
             ELSE /\ final_text' = FinalText(success, files, directories, errors, msg)
                  /\ clean_pc' = "done"
                  /\ NoReclaim
                  /\ UNCHANGED idx
    /\ UNCHANGED <<SIZE_THRESHOLD, fs, listLog, removeLog, current_dir, clean_target,
                   directories>>
    /\ UNCHANGED configVars
    /\ UNCHANGED selectVars

\* The arguments of /clean: None when there is none.
Targets == {None, "/", "a", "-A", "-", "ab", "b", "w", "z"}

\* The directories the current download directory is chosen from.
DownloadDirs == {Root, <<"r", "b">>}

----------------------------------------------------------------------------
(* /switch and /reload_config *)

\* The most parts the value of ALIST_OFFLINE_DIRS in .env is split into.
MaxDirs == 3

\* The parts between the commas of the value: directories and blank parts.
EnvParts == {"/a", "/b", Blank}

\* os.getenv("ALIST_OFFLINE_DIRS", "").split(","), as the sequence of parts.
EnvValues == UNION {[1..n -> EnvParts] : n \in 0..MaxDirs}

\* bot.py:38 and 821: [d.strip() for d in value.split(",") if d.strip()].
RECURSIVE LoadDirs(_)
LoadDirs(parts) ==
    IF parts = <<>> THEN <<>>
    ELSE IF Strip(Head(parts)) = "" THEN LoadDirs(Tail(parts))
    ELSE <<Strip(Head(parts))>> \o LoadDirs(Tail(parts))

\* The words after /switch that are tried.
ArgTexts == {"0", "1", "2", "3", "-1", "x"}

\* context.args of /switch: no word, one word or two.
SwitchArgs == {<<>>} \cup {<<t>> : t \in ArgTexts} \cup {<<"1", "2">>}

\* int(text) raises ValueError.
RaisesValueError(text) == text \notin {"0", "1", "2", "3", "-1"}

\* int(text) for the texts it accepts.
IntOf(text) ==
    CASE text = "0" -> 0
      [] text = "1" -> 1
      [] text = "2" -> 2
      [] text = "3" -> 3
      [] text = "-1" -> -1

\* bot.py:799-815.
switch_path(args) ==
    /\ IF Len(args) # 1
       THEN /\ config_reply' = "usage"
            /\ UNCHANGED <<current_download_dir_index, current_download_dir>>
       ELSE IF RaisesValueError(args[1])
       THEN /\ config_reply' = "not_a_number"
            /\ UNCHANGED <<current_download_dir_index, current_download_dir>>
       ELSE LET index == IntOf(args[1]) - 1
                dirs == ALIST_OFFLINE_DIRS
            IN IF 0 <= index /\ index < Len(dirs)
               THEN /\ current_download_dir_index' = index
                    /\ current_download_dir' = dirs[index + 1]
                    /\ config_reply' = "switched"
               ELSE /\ config_reply' = "invalid_number"
                    /\ UNCHANGED <<current_download_dir_index, current_download_dir>>
    /\ UNCHANGED ALIST_OFFLINE_DIRS
    /\ UNCHANGED <<current_dir, clean_target, clean_pc, directories, idx,
                   success_dirs, total_files, clean_error_messages, final_text,
                   reclaimLog>>
    /\ UNCHANGED <<reclaimVars, selectVars>>

\* bot.py:817-827: the global list is replaced before it is tested.
reload_config(env) ==
    /\ ALIST_OFFLINE_DIRS' = LoadDirs(env)
    /\ IF LoadDirs(env) = <<>>
       THEN /\ config_reply' = "reload_failed"
            /\ UNCHANGED <<current_download_dir_index, current_download_dir>>
       ELSE /\ current_download_dir_index' = 0
            /\ current_download_dir' = LoadDirs(env)[1]
            /\ config_reply' = "reloaded"
    /\ UNCHANGED <<current_dir, clean_target, clean_pc, directories, idx,
                   success_dirs, total_files, clean_error_messages, final_text,
                   reclaimLog>>
    /\ UNCHANGED <<reclaimVars, selectVars>>

\* The configuration of the other specifications: one directory.
ConfigIdle ==
    /\ ALIST_OFFLINE_DIRS = <<"/a">>
    /\ current_download_dir_index = 0
    /\ current_download_dir = "/a"
    /\ config_reply = "none"

----------------------------------------------------------------------------
(* Specifications *)

CleanIdle ==
    /\ current_dir = Root
    /\ clean_target = None
    /\ clean_pc = "idle"
    /\ directories = <<>>
    /\ idx = 0
    /\ success_dirs = 0
    /\ total_files = 0
    /\ clean_error_messages = <<>>
    /\ final_text = NoReply
    /\ reclaimLog = <<>>
    /\ ConfigIdle

ReclaimIdle ==
    /\ SIZE_THRESHOLD = 0
    /\ fs = [dirs |-> {Root}, files |-> <<>>]
    /\ fs0 = fs
    /\ pc = "idle"
    /\ files_to_delete = <<>>
    /\ dir_files = <<>>
    /\ total_deleted_files = 0
    /\ file_error_messages = <<>>
    /\ empty_dirs = <<>>
    /\ total_deleted = 0
    /\ error_messages = <<>>
    /\ result = NoResult
    /\ listLog = <<>>
    /\ removeLog = <<>>
    /\ reclaim_root = Root
    /\ CleanIdle

ParseIdle ==
    /\ raw_result = NoResponse
    /\ size_str = EmptySize
    /\ size_result = NotParsed

SelectIdle ==
    /\ parsed_entries = <<>>
    /\ selected = NotSelected
    /\ ParseIdle

SelectInit ==
    /\ parsed_entries = <<>>
    /\ selected = NotSelected
    /\ ParseIdle
    /\ ReclaimIdle

SelectNext ==
    \/ \E c \in Candidates : parse_entry(c[1], c[2])
    \/ get_magnet

SelectSpec == SelectInit /\ [][SelectNext]_vars

\* The bound on the records of a search whose orderings are compared.
MaxRecords == 3

\* get_magnet on the search data of at most MaxRecords valid records.
OrderNext ==
    \/ /\ Len(parsed_entries) < MaxRecords
       /\ \E c \in Candidates : parse_entry(c[1], c[2])
    \/ get_magnet

OrderSpec == SelectInit /\ [][OrderNext]_vars

SearchInit ==
    /\ raw_result \in SearchResponses
    /\ parsed_entries = <<>>
    /\ selected = NotSelected
    /\ size_str = EmptySize
    /\ size_result = NotParsed
    /\ ReclaimIdle

SearchNext ==
    \/ \E entry \in EntriesAt(Len(raw_result.data) + 1) : data_entry(entry)
    \/ get_magnet_request

SearchSpec == SearchInit /\ [][SearchNext]_vars

SizeInit ==
    /\ size_str \in FittingSizeTokens
    /\ size_result = NotParsed
    /\ raw_result = NoResponse
    /\ parsed_entries = <<>>
    /\ selected = NotSelected
    /\ ReclaimIdle

SizeNext == parse_size

SizeSpec == SizeInit /\ [][SizeNext]_vars

Init ==
    /\ SIZE_THRESHOLD \in {0, ThresholdOn}
    /\ fs \in Trees
    /\ fs0 = fs
    /\ pc = "start"
    /\ files_to_delete = <<>>
    /\ dir_files = <<>>
    /\ total_deleted_files = 0
    /\ file_error_messages = <<>>
    /\ empty_dirs = <<>>
    /\ total_deleted = 0
    /\ error_messages = <<>>
    /\ result = NoResult
    /\ listLog = <<>>
    /\ removeLog = <<>>
    /\ reclaim_root = Root
    /\ CleanIdle
    /\ SelectIdle

Next ==
    \/ \E fail \in SUBSET (PossibleDirs \cup {Root}) : cleanup_small_files_begin(fail)
    \/ \E outcome \in RemoveOutcomes : delete_file_batch(outcome)
    \/ \E fail \in SUBSET (PossibleDirs \cup {Root}) : cleanup_empty_dirs_begin(fail)
    \/ \E outcome \in RemoveOutcomes : delete_empty_dir(outcome)

Spec == Init /\ [][Next]_vars

InterruptNext ==
    \/ Next
    \/ cancel_reclaim
    \/ unexpected_error

InterruptSpec == Init /\ [][InterruptNext]_vars

CleanInit ==
    /\ SIZE_THRESHOLD \in {0, ThresholdOn}
    /\ fs \in Trees
    /\ fs0 = fs
    /\ pc = "idle"
    /\ files_to_delete = <<>>
    /\ dir_files = <<>>
    /\ total_deleted_files = 0
    /\ file_error_messages = <<>>
    /\ empty_dirs = <<>>
    /\ total_deleted = 0
    /\ error_messages = <<>>
    /\ result = NoResult
    /\ listLog = <<>>
    /\ removeLog = <<>>
    /\ reclaim_root = Root
    /\ current_dir \in DownloadDirs
    /\ clean_target \in Targets
    /\ clean_pc = "start"
    /\ directories = <<>>
    /\ idx = 0
    /\ success_dirs = 0
    /\ total_files = 0
    /\ clean_error_messages = <<>>
    /\ final_text = NoReply
    /\ reclaimLog = <<>>
    /\ ConfigIdle
    /\ SelectIdle

CleanNext ==
    \/ \E fail \in SUBSET (PossibleDirs \cup {Root}) : clean_command_begin(fail)
    \/ clean_global_end
    \/ clean_directory_end
    \/ Next

CleanSpec == CleanInit /\ [][CleanNext]_vars

\* bot.py:38-50 and 857-865: the bot runs only with a directory loaded, and
\* starts at the first one.
ConfigInit ==
    /\ ALIST_OFFLINE_DIRS \in {LoadDirs(env) : env \in EnvValues} \ {<<>>}
    /\ current_download_dir_index = 0
    /\ current_download_dir = ALIST_OFFLINE_DIRS[1]
    /\ config_reply = "none"
    /\ current_dir = Root
    /\ clean_target = None
    /\ clean_pc = "idle"
    /\ directories = <<>>
    /\ idx = 0
    /\ success_dirs = 0
    /\ total_files = 0
    /\ clean_error_messages = <<>>
    /\ final_text = NoReply
    /\ reclaimLog = <<>>
    /\ SIZE_THRESHOLD = 0
    /\ fs = [dirs |-> {Root}, files |-> <<>>]
    /\ fs0 = fs
    /\ pc = "idle"
    /\ files_to_delete = <<>>
    /\ dir_files = <<>>
    /\ total_deleted_files = 0
    /\ file_error_messages = <<>>
    /\ empty_dirs = <<>>
    /\ total_deleted = 0
    /\ error_messages = <<>>
    /\ result = NoResult
    /\ listLog = <<>>
    /\ removeLog = <<>>
    /\ reclaim_root = Root
    /\ SelectIdle

ConfigNext ==
    \/ \E args \in SwitchArgs : switch_path(args)
    \/ \E env \in EnvValues : reload_config(env)

ConfigSpec == ConfigInit /\ [][ConfigNext]_vars

----------------------------------------------------------------------------
(* Properties *)

EntriesOf(entries) == {entries[i] : i \in 1..Len(entries)}

\* The byte count from which an entry belongs to the cluster of the largest one.
NearMax(e, entries) ==
    \A o \in EntriesOf(entries) : 10 * e.size_bytes >= 7 * o.size_bytes

OrdinalOrZero(e) == IF e.date = None THEN 0 ELSE ToOrdinal(e.date)

Chosen == CHOOSE e \in EntriesOf(parsed_entries) : e.magnet = selected.magnet

SizesOf(entries) == [i \in 1..Len(entries) |-> entries[i].size_bytes]

\* C1: for parsed entries that are not empty get_magnet returns the magnet of
\* an entry c of size >= 0.7 * the largest size, such that no entry of size
\* >= 0.7 * the largest size is smaller than c and none of those of c's size
\* has a later date (no date counts as ordinal 0); for the sizes
\* [100, 95, 70, 30] the entry of size 70 is returned.
C1_SelectsSmallestOfCluster ==
    (selected # NotSelected /\ parsed_entries # <<>>) =>
        /\ selected.error = None
        /\ \E e \in EntriesOf(parsed_entries) : e.magnet = selected.magnet
        /\ NearMax(Chosen, parsed_entries)
        /\ \A o \in EntriesOf(parsed_entries) :
              NearMax(o, parsed_entries) =>
                 /\ o.size_bytes >= Chosen.size_bytes
                 /\ o.size_bytes = Chosen.size_bytes
                       => OrdinalOrZero(o) <= OrdinalOrZero(Chosen)
        /\ SizesOf(parsed_entries) = <<100, 95, 70, 30>> => Chosen.size_bytes = 70

\* C1 witness: of the sizes [100, 95, 70, 30] the third entry is returned.
C1_Witness ==
    /\ SizesOf(parsed_entries) = <<100, 95, 70, 30>>
    /\ selected.magnet = MagnetOf(3)

FileRequests == SelectSeq(removeLog, LAMBDA r : r.phase = "files")
DirRequests == SelectSeq(removeLog, LAMBDA r : r.phase = "dirs")

\* Phase 1 is over: every directory group has had its turn.
FilePhaseOver == pc \in {"dirs", "dir_deletes", "done"} /\ files_to_delete # <<>>

ParentsOf(paths) == {dirname(p) : p \in Range(paths)}

\* C2: the collected paths are grouped by parent directory; one remove
\* request is issued for each parent directory, and it names all and only the
\* collected files of that directory.
C2_OneBatchPerParent ==
    FilePhaseOver =>
        /\ {r.dir : r \in Range(FileRequests)} = ParentsOf(files_to_delete)
        /\ Len(FileRequests) = Cardinality(ParentsOf(files_to_delete))
        /\ \A r \in Range(FileRequests) :
              /\ {Append(r.dir, n) : n \in Range(r.names)}
                    = {p \in Range(files_to_delete) : dirname(p) = r.dir}
              /\ Len(r.names) = Cardinality(Range(r.names))

\* C2 witness: the files /r/a/x, /r/a/y and /r/b/z give two requests, /r/a
\* with [x, y] and /r/b with [z].
C2_Witness ==
    /\ FilePhaseOver
    /\ Range(files_to_delete) = {<<"r", "a", "x">>, <<"r", "a", "y">>, <<"r", "b", "z">>}
    /\ Len(FileRequests) = 2
    /\ FileRequests[1].dir = <<"r", "a">> /\ FileRequests[1].names = <<"x", "y">>
    /\ FileRequests[2].dir = <<"r", "b">> /\ FileRequests[2].names = <<"z">>

ListedA == SelectSeq(listLog, LAMBDA e : e.walk = "A")
ListedB == SelectSeq(listLog, LAMBDA e : e.walk = "B")

OkRequests(requests) == SelectSeq(requests, LAMBDA r : r.outcome = "ok")
NotOkRequests(requests) == SelectSeq(requests, LAMBDA r : r.outcome # "ok")

\* C3 (as claimed): every directory group is attempted whatever the outcome
\* of the groups before it; the count of deleted files is the sum of the file
\* counts of the batches that succeeded, and the failure list holds exactly
\* one entry for each batch that did not, naming its directory.
C3_EveryBatchCountedOrReported ==
    FilePhaseOver =>
        /\ Len(FileRequests) = Cardinality(ParentsOf(files_to_delete))
        /\ total_deleted_files = SumLen(OkRequests(FileRequests))
        /\ Len(file_error_messages) = Len(NotOkRequests(FileRequests))
        /\ \A r \in Range(NotOkRequests(FileRequests)) :
              Cardinality({i \in 1..Len(file_error_messages) :
                              file_error_messages[i].target = r.dir[Len(r.dir)]}) = 1

\* C4 (as claimed): when the walk for undersized files returns nothing and the
\* threshold is not 0, the walk for empty directories still runs from the
\* root and a remove request is issued for each directory it returns.
C4_EmptyFileWalkStillCleansDirs ==
    (pc = "done" /\ SIZE_THRESHOLD # 0 /\ files_to_delete = <<>>) =>
        /\ \E e \in Range(ListedB) : e.path = Root
        /\ \A e \in Range(ListedB) :
              (e.ok /\ e.content = <<>>) =>
                 \E r \in Range(DirRequests) : Append(r.dir, r.names[1]) = e.path
        /\ result.deleted = 0

AllCallsOk ==
    /\ \A e \in Range(listLog) : e.ok
    /\ \A r \in Range(removeLog) : r.outcome = "ok"

ChildrenIn(tree, d) == {p \in tree.dirs \cup DOMAIN tree.files : Len(p) > 1 /\ dirname(p) = d}

\* All that d held when the reclaim started were files, and each was named by
\* a file batch that succeeded.
EmptiedInPhase1(d) ==
    /\ ChildrenIn(fs0, d) # {}
    /\ \A p \in ChildrenIn(fs0, d) :
          /\ p \in DOMAIN fs0.files
          /\ \E r \in Range(OkRequests(FileRequests)) :
                r.dir = d /\ p[Len(p)] \in Range(r.names)

\* The end-to-end scenario: /r/a holds one file below the threshold, /r/b one
\* file above it.
ScenarioTree ==
    [dirs |-> {Root, <<"r", "a">>, <<"r", "b">>},
     files |-> (<<"r", "a", "x">> :> ThresholdOn - 1) @@
               (<<"r", "b", "z">> :> ThresholdOn + 1)]

\* C5: the walk for empty directories starts only when every file batch has
\* been issued; when all listing and remove calls succeed, a directory that
\* held only undersized files, all deleted in phase 1, is listed as empty in
\* phase 2 and removed in the same reclaim; the scenario yields one file and
\* one directory deleted and leaves the large file.
C5_EmptiedDirsGoInSameReclaim ==
    /\ ListedB # <<>> =>
          /\ dir_files = <<>>
          /\ Len(FileRequests) = Cardinality(ParentsOf(files_to_delete))
    /\ (pc = "done" /\ AllCallsOk) =>
          /\ \A d \in fs0.dirs :
                EmptiedInPhase1(d) =>
                   /\ d \notin fs.dirs
                   /\ \E e \in Range(ListedB) : e.path = d /\ e.ok /\ e.content = <<>>
                   /\ \E r \in Range(DirRequests) : Append(r.dir, r.names[1]) = d
          /\ (fs0 = ScenarioTree /\ SIZE_THRESHOLD = ThresholdOn) =>
                /\ result.deleted = 1
                /\ result.msg.kind = "files_and_dirs_deleted"
                /\ result.msg.files = 1
                /\ result.msg.dirs = 1
                /\ <<"r", "b", "z">> \in DOMAIN fs.files

\* C5 witness: the scenario, run with every call succeeding.
C5_Witness ==
    /\ pc = "done"
    /\ SIZE_THRESHOLD = ThresholdOn
    /\ AllCallsOk
    /\ fs0 = ScenarioTree
    /\ <<"r", "a">> \notin fs.dirs
    /\ result.msg.dirs = 1

\* C6 (as claimed): no file batch names a file whose listed size is at or
\* above the threshold, and every file at or above the threshold that the
\* tree held when the reclaim started is still there, whatever calls fail.
C6_LargeFilesSurvive ==
    /\ \A r \in Range(FileRequests) : \A n \in Range(r.names) :
          fs0.files[Append(r.dir, n)] < SIZE_THRESHOLD
    /\ \A f \in DOMAIN fs0.files :
          fs0.files[f] >= SIZE_THRESHOLD => f \in DOMAIN fs.files

\* What a reclaim did, from its remove requests.
Attempted == removeLog # <<>>
SomeDeleted == \E r \in Range(removeLog) : r.outcome = "ok"
SomeFailed == \E r \in Range(removeLog) : r.outcome \in {"app_error", "request_error"}

\* What the returned message reports.
ReportedShape ==
    LET m == result.msg
    IN CASE m.kind = "files_and_dirs_deleted" -> "total_success"
         [] m.kind = "files_deleted" ->
               IF m.dir_msg.kind = "dirs_partly_failed" THEN "partial_success"
               ELSE "total_success"
         [] m.kind \in {"files_partly_failed", "files_partly_failed_with_dirs"} ->
               "partial_success"
         [] m.kind = "failed" -> "total_failure"
         [] m.kind = "no_small_files" ->
               IF m.dir_msg.kind = "dirs_partly_failed" THEN "total_failure"
               ELSE "no_op"
         [] OTHER -> m.kind

\* Every remove request was answered with HTTP 200 or with an error.
PlainAnswers == \A r \in Range(removeLog) : r.outcome # "other_status"

\* C7 (as claimed): the outcome has one of four shapes, matching what happened
\* over both phases: total success only if a deletion succeeded and no file
\* batch and no directory delete failed; partial success iff one succeeded
\* and one failed; total failure iff deletes were attempted and none
\* succeeded; no-op iff nothing matched either walk.  Stated for the runs
\* whose remove requests were all answered with HTTP 200 or with an error.
C7_ShapeMatchesWhatHappened ==
    (pc = "done" /\ SIZE_THRESHOLD # 0 /\ PlainAnswers) =>
        /\ ReportedShape \in {"total_success", "partial_success", "total_failure", "no_op"}
        /\ ReportedShape = "total_success" => (SomeDeleted /\ ~SomeFailed)
        /\ ReportedShape = "partial_success" <=> (SomeDeleted /\ SomeFailed)
        /\ ReportedShape = "total_failure" <=> (Attempted /\ ~SomeDeleted)
        /\ ReportedShape = "no_op" <=> ~Attempted

WalkADone == pc # "start" /\ SIZE_THRESHOLD # 0

FailedA == {e.path : e \in {x \in Range(ListedA) : ~x.ok}}

\* No listing on the way from the root down to d failed.
ListingsSucceeded(d) == \A k \in 1..Len(d) : SubSeq(d, 1, k) \notin FailedA

NoBlankName(p) == \A k \in 1..Len(p) : p[k] # Blank

WalkBJustDone == ListedB # <<>> /\ DirRequests = <<>>

\* C9 (as claimed): one walk returns a directory iff the directory's own
\* listing in this walk shows no subdirectory and no file; so no returned
\* path is an ancestor of another.
C9_ReturnedIffListedEmpty ==
    WalkBJustDone =>
        /\ Range(empty_dirs) =
              {e.path : e \in {x \in Range(ListedB) :
                  /\ x.ok
                  /\ ~\E i \in 1..Len(x.content) : x.content[i].is_dir
                  /\ ~\E i \in 1..Len(x.content) : ~x.content[i].is_dir}}
        /\ \A p, q \in Range(empty_dirs) : p # q => ~IsPrefix(p, q)

\* C10: with threshold 0 no listing and no remove request is issued, the walk
\* returns nothing and the reclaim returns the "disabled" outcome with zero
\* deletions.
C10_DisabledMakesNoRequest ==
    /\ SIZE_THRESHOLD = 0 => (listLog = <<>> /\ removeLog = <<>> /\ fs = fs0)
    /\ (SIZE_THRESHOLD = 0 /\ pc = "done") =>
          (result.msg.kind = "disabled" /\ result.deleted = 0)
    /\ \A fail \in SUBSET (PossibleDirs \cup {Root}) :
          recursive_collect_files(fs, 0, fail, Root) = [files |-> <<>>, listed |-> <<>>]

\* C10 witness: a tree with an undersized file, reclaimed with threshold 0.
C10_Witness ==
    /\ SIZE_THRESHOLD = 0
    /\ pc = "done"
    /\ <<"r", "w">> \in DOMAIN fs.files
    /\ result.msg.kind = "disabled"

\* The remove requests that were answered with HTTP 200 and code 200, and the
\* others.
DeletedByRequests == SumLen(OkRequests(removeLog))
FailureEntries == file_error_messages \o error_messages

\* C11 (as claimed): every remove request of a reclaim, a file batch or the
\* delete of one directory, is classified exactly once: it adds to a deleted
\* count or it adds one entry to a failure list; a request that is not
\* answered with HTTP 200 and code 200 (a network error, any other HTTP
\* status, another code) adds a failure entry.
C11_EveryRequestClassifiedOnce ==
    /\ total_deleted_files + total_deleted = DeletedByRequests
    /\ Len(FailureEntries) = Len(NotOkRequests(removeLog))
    /\ \A i \in 1..Len(removeLog) :
          removeLog[i].outcome # "ok" =>
             \E j \in 1..Len(FailureEntries) :
                FailureEntries[j].reason = removeLog[i].outcome

\* The reclaim has returned with the root listing of the walk for undersized
\* files failed.
RootListingFailed == pc = "done" /\ Root \in FailedA

\* C12 (as claimed): when the listing of the root fails at the start of a
\* reclaim the returned outcome is the overall failure, not a success and not
\* a no-op; when the root listing succeeds and only deeper listings fail, with
\* no remove request failing, the outcome is not the overall failure.
C12_RootListingFailureFailsReclaim ==
    /\ RootListingFailed => ReportedShape = "total_failure"
    /\ (pc = "done" /\ SIZE_THRESHOLD # 0 /\ Root \notin FailedA
          /\ \A r \in Range(removeLog) : r.outcome = "ok")
          => ReportedShape # "total_failure"

\* The listings below the root that failed, in either walk.
FailedListings == SelectSeq(listLog, LAMBDA e : ~e.ok /\ e.path # Root)

\* The failure entries of the returned outcome: those the message lists and
\* those of the quoted message of cleanup_empty_dirs.
ReportedErrors == result.msg.errors \o result.msg.dir_msg.errors

\* C13 (as claimed): every listing of a subtree that failed during a reclaim,
\* in the walk for undersized files or in the walk for empty directories, has
\* an entry in the failure list of the outcome the reclaim returns, and the
\* list is at least as long as the number of failed listings.
C13_ListingFailuresReported ==
    pc = "done" =>
        /\ Len(ReportedErrors) >= Len(FailedListings)
        /\ \A e \in Range(FailedListings) :
              \E j \in 1..Len(ReportedErrors) :
                 ReportedErrors[j].target = basename(e.path)

\* The whole part and the remainder of (q + r / m) * 2^bits, by doubling.
RECURSIVE Doubled(_, _, _, _)
Doubled(q, r, m, bits) ==
    IF bits = 0 THEN [whole |-> q, rest |-> r, of |-> m]
    ELSE Doubled(2 * q + (IF 2 * r >= m THEN 1 ELSE 0), (2 * r) % m, m, bits - 1)

\* The exponents of the units B, KB, MB, GB and TB.
UnitExponent == ("B" :> 0) @@ ("KB" :> 1) @@ ("MB" :> 2) @@ ("GB" :> 3) @@ ("TB" :> 4)

\* A token <value><unit> with a decimal value and one of those units.
ValueAndUnit(size) ==
    /\ size.type = "str" /\ size.form = "number_unit"
    /\ size.dots <= 1
    /\ size.unit \in DOMAIN UnitExponent

\* value * 1024^exponent of such a token.
ExactBytes(size) ==
    Doubled(size.n \div Pow10(size.scale), size.n % Pow10(size.scale),
            Pow10(size.scale), 10 * UnitExponent[size.unit])

\* b is an integer nearest to x.
IsNearest(b, x) ==
    \/ b = x.whole /\ 2 * x.rest <= x.of
    \/ b = x.whole + 1 /\ 2 * x.rest >= x.of

\* C18 (as claimed): for a token <value><unit> with unit B, KB, MB, GB or TB
\* parse_size_to_bytes returns value * 1024^exponent, exponent 0, 1, 2, 3, 4,
\* rounded to the nearest integer, and it returns 0 for the empty token.
C18_ParsesToRounded ==
    size_result # NotParsed =>
        /\ ValueAndUnit(size_str) =>
              /\ size_result.kind = "int"
              /\ IsNearest(size_result.value, ExactBytes(size_str))
        /\ size_str = EmptySize => size_result = SizeReturn("int", 0)

\* C18 (amended): for a token <value><unit> with unit B, KB, MB, GB or TB
\* parse_size_to_bytes returns the whole part of value * 1024^exponent,
\* exponent 0, 1, 2, 3, 4 (the fraction is cut off, not rounded): "100MB"
\* gives 100 * 1024^2 and "0.540GB" gives 579820584 of 579820584.96; it
\* returns 0 for the empty token.
C18_ParsesToWholePart ==
    size_result # NotParsed =>
        /\ ValueAndUnit(size_str) =>
              /\ size_result.kind = "int"
              /\ size_result.value = ExactBytes(size_str).whole
        /\ size_str = NumberUnit(100, 0, 0, "MB") => size_result.value = 104857600
        /\ size_str = NumberUnit(540, 3, 1, "GB") => size_result.value = 579820584
        /\ size_str = NumberUnit(1, 3, 1, "TB") => size_result.value = 1099511627
        /\ size_str = EmptySize => size_result = SizeReturn("int", 0)

\* C18 witness: "0.540GB", whose product has the fraction .96, is parsed to
\* the whole part.
C18_Witness ==
    /\ size_str = NumberUnit(540, 3, 1, "GB")
    /\ ExactBytes(size_str).rest = 960
    /\ size_result = SizeReturn("int", 579820584)

\* get_magnet has returned for a response of the search service.
Answered == selected # NotSelected /\ raw_result.http = "ok"

\* The failures that tell the caller that nothing was found for the code
\* searched.
NotFoundErrors == {"not_found", "no_magnet_yet"}

HasSchemePrefix(token) ==
    token.type = "str" /\ \E i \in 1..6 : token.text = MagnetOf(i)

\* The size token is absent or empty, or a number and a unit of the pattern.
SizeTokenValid(size) ==
    \/ Falsy(size)
    \/ /\ size.type = "str" /\ size.form = "number_unit" /\ size.dots <= 1
       /\ Upper(size.unit) \in PatternUnits

\* A record that is well formed: a list of four elements or more, a locator
\* with the prefix, a valid size token.
WellFormedEntry(entry) ==
    /\ entry.shape = "list"
    /\ HasSchemePrefix(entry.magnet)
    /\ SizeTokenValid(entry.size)

DataEntries == {raw_result.data[i] : i \in 1..Len(raw_result.data)}

\* C16 (as claimed): a malformed record of the data (not a list, fewer than
\* four elements, a locator that is invalid or not text, a size token that
\* is invalid or not text) is dropped and the selection does not fail: with
\* one well-formed record or more in the same response, get_magnet returns
\* the locator of a well-formed record.
C16_MalformedRecordIsDropped ==
    (Answered /\ raw_result.status = "succeed"
        /\ \E e \in DataEntries : WellFormedEntry(e) /\ e.date.type = "str") =>
        /\ selected.error = None
        /\ \E e \in DataEntries : WellFormedEntry(e) /\ e.magnet.text = selected.magnet

\* The locator and the size token are text or absent.
TextOrAbsent(entry) ==
    /\ entry.magnet.type \in {"str", "NoneType"}
    /\ entry.size.type \in {"str", "NoneType"}

\* C17 (as claimed): parse_api_data_entry accepts a record iff it is a list
\* of four elements or more whose locator starts with "magnet:?" and whose
\* size token is empty or matches <number><unit>; the date token never causes
\* rejection: a date token that is absent or is not a date YYYY-MM-DD gives
\* an entry whose date is None.
C17_AcceptedIffWellFormed ==
    \A e \in DataEntries :
        TextOrAbsent(e) =>
           /\ parse_api_data_entry(e).kind = "dict" <=> WellFormedEntry(e)
           /\ (parse_api_data_entry(e).kind = "dict"
                  /\ (FalsyToken(e.date) \/ e.date.text \notin {"2023-01-01", "2024-06-01"}))
                 => parse_api_data_entry(e).date = None

\* C19 (as claimed): when the response has data and no record passes the
\* parsing, get_magnet returns the failure that no magnet is valid and no
\* locator, and raises nothing; in every case it returns either a locator or
\* a failure, never both and never neither.
C19_NoCandidateIsNoValidMagnet ==
    /\ (Answered /\ raw_result.status = "succeed" /\ raw_result.data # <<>>
           /\ \A e \in DataEntries : parse_api_data_entry(e).kind # "dict")
          => selected = Answer(None, "no_valid_magnet")
    /\ selected # NotSelected => (selected.magnet = None) # (selected.error = None)

\* The record passed the validation of the prefix and its size token was resolved
\* to a byte count.
PassedPrefixAndSize(entry) ==
    /\ entry.shape = "list"
    /\ HasSchemePrefix(entry.magnet)
    /\ parse_size_to_bytes(entry.size).kind = "int"

\* C20: a locator get_magnet returns is the locator of a record of the data
\* that passed the validation of the prefix and whose size token was resolved to a
\* byte count; the entries among which the maximum, the cluster and the order
\* are taken are such records only, each with its resolved byte count.
C20_SelectedAmongValidated ==
    (Answered /\ selected.magnet # None) =>
        /\ \E e \in DataEntries : PassedPrefixAndSize(e) /\ e.magnet.text = selected.magnet
        /\ \A p \in Range(parsed_entries) :
              \E e \in DataEntries :
                 /\ PassedPrefixAndSize(e)
                 /\ e.magnet.text = p.magnet
                 /\ parse_size_to_bytes(e.size).value = p.size_bytes
        /\ \A e \in DataEntries :
              ~PassedPrefixAndSize(e) =>
                 \A p \in Range(parsed_entries) : p.magnet # e.magnet.text
        /\ selected.magnet = SelectMagnet(parsed_entries)

\* C20 witness: of a record without the prefix, a record whose size token is
\* words and a record of 70 bytes, the third is returned.
C20_Witness ==
    /\ Answered
    /\ Len(raw_result.data) = 3
    /\ raw_result.data[1].magnet = Token("str", "http://x")
    /\ raw_result.data[2].size = WordsSize
    /\ raw_result.data[3].size = NumberUnit(70, 0, 0, "B")
    /\ selected = Answer(MagnetOf(3), None)

\* clean_command has replied to a request for the directories of a fragment.
FragmentCleaned ==
    /\ clean_pc = "done"
    /\ SIZE_THRESHOLD # 0
    /\ clean_target \notin {None, "/"}

\* The listing of the current directory that the search for the fragment saw.
FindListings == SelectSeq(listLog, LAMBDA e : e.walk = "find")

\* The direct subdirectories of the current directory whose name, without
\* the characters that are not alphanumeric and in lower case, starts with the
\* fragment treated the same way.
MatchedSubdirs ==
    IF FindListings = <<>> \/ ~FindListings[1].ok THEN {}
    ELSE LET content == FindListings[1].content
         IN {Append(current_dir, content[i].name) :
                i \in {j \in 1..Len(content) :
                          /\ content[j].is_dir
                          /\ IsPrefix(Normalized(Chars(clean_target)),
                                      Normalized(Chars(content[j].name)))}}

\* C14 (as claimed): for a cleanup of the directories of a fragment,
\* cleanup_small_files is called exactly once for each direct subdirectory of
\* the current directory whose normalised name starts with the normalised
\* fragment and for no other path, never for a file and never for the current
\* directory itself, whatever the outcome of the calls before.
C14_ReclaimsExactlyTheMatches ==
    FragmentCleaned =>
        /\ Range(reclaimLog) = MatchedSubdirs
        /\ Len(reclaimLog) = Cardinality(MatchedSubdirs)
        /\ current_dir \notin Range(reclaimLog)
        /\ \A p \in Range(reclaimLog) : p \notin DOMAIN fs0.files

\* C21: at every point of a reclaim the failure list of the file batches has
\* at most as many entries as file batches were requested so far, and the
\* failure list of the directory deletes at most as many as directory deletes
\* were requested so far.
C21_FailuresAtMostAttempts ==
    /\ Len(file_error_messages) <= Len(FileRequests)
    /\ Len(error_messages) <= Len(DirRequests)

\* C21 witness: two file batches and a directory delete were requested, one
\* batch and the directory delete failed.
C21_Witness ==
    /\ Len(FileRequests) = 2 /\ Len(file_error_messages) = 1
    /\ Len(DirRequests) = 1 /\ Len(error_messages) = 1

\* The directory a remove request deletes, for a request of phase 2.
DeletedDir(r) == Append(r.dir, r.names[1])

\* C22 (as claimed): within one reclaim no two remove requests, file batches
\* and directory deletes together, name the same parent directory.
C22_NoTwoRequestsOnOneParent ==
    \A i, j \in 1..Len(removeLog) :
        i # j => removeLog[i].dir # removeLog[j].dir

\* C22 (amended): within one reclaim no two file batches name the same parent
\* directory and no two directory deletes name the same directory; a
\* directory delete may name the parent of a file batch or of another
\* directory delete, and every file batch is requested before the first
\* directory delete.
C22_BatchesAndDeletesDistinct ==
    /\ \A i, j \in 1..Len(FileRequests) :
          i # j => FileRequests[i].dir # FileRequests[j].dir
    /\ \A i, j \in 1..Len(DirRequests) :
          i # j => DeletedDir(DirRequests[i]) # DeletedDir(DirRequests[j])
    /\ \A i, j \in 1..Len(removeLog) :
          (removeLog[i].phase = "dirs" /\ removeLog[j].phase = "files") => j < i

\* C22 witness: the empty directories /r/a and /r/b are both deleted by a
\* request that names /r, after a file batch in /r.
C22_Witness ==
    /\ Len(FileRequests) = 1 /\ FileRequests[1].dir = Root
    /\ Len(DirRequests) = 2
    /\ DirRequests[1].dir = Root /\ DirRequests[2].dir = Root
    /\ DeletedDir(DirRequests[1]) # DeletedDir(DirRequests[2])

\* The reclaim was interrupted after a file batch had succeeded.
InterruptedAfterDeletion ==
    /\ \E r \in Range(FileRequests) : r.outcome = "ok"
    /\ pc = "cancelled" \/ (pc = "done" /\ result = SystemError)

\* C23 (as claimed): a reclaim that is interrupted, by a cancellation or by
\* an unexpected error, after file batches have succeeded still returns an
\* outcome, and the outcome counts the files deleted before the interruption.
C23_InterruptedReclaimReportsDeletions ==
    InterruptedAfterDeletion =>
        /\ result # NoResult
        /\ result.deleted = total_deleted_files
        /\ result.deleted > 0

\* C24 (as claimed): every directory delete a reclaim requests names a strict
\* descendant of the directory the reclaim was called for; that directory
\* itself is never deleted, also when its listing shows nothing once the
\* files are deleted.
C24_RootIsNeverDeleted ==
    /\ \A r \in Range(DirRequests) :
          /\ IsPrefix(reclaim_root, DeletedDir(r))
          /\ DeletedDir(r) # reclaim_root
    /\ reclaim_root \in fs.dirs

\* The directories a reclaim asked to delete.
DeletedDirs == {DeletedDir(r) : r \in Range(DirRequests)}

\* The directories whose listing failed in the walk for empty directories.
FailedB == {e.path : e \in {x \in Range(ListedB) : ~x.ok}}

\* The directories whose file batch did not succeed.
FailedBatchDirs == {r.dir : r \in Range(NotOkRequests(FileRequests))}

\* C25 (as claimed): a directory delete is requested only for a directory
\* whose own listing in the walk of phase 2 succeeded and showed no file and
\* no subdirectory; a directory whose listing failed, or whose file batch
\* failed in phase 1 so that it still holds files, is never deleted, and none
\* of its ancestors is.
C25_OnlyListedEmptyDirsDeleted ==
    /\ \A d \in DeletedDirs :
          \E e \in Range(ListedB) : e.path = d /\ e.ok /\ e.content = <<>>
    /\ \A p \in FailedB \cup FailedBatchDirs :
          \A d \in DeletedDirs : ~IsPrefix(d, p)

\* clean_command went through its loop over the matched directories and
\* replied the final text.
LoopReported == clean_pc = "done" /\ directories # <<>>

\* C26 (as claimed): in clean_command each matched directory is counted in
\* exactly one of the three classes, so the cleaned and the failed directories
\* together are never more than the matched ones (zero_dirs_count >= 0) and
\* the final text is one of the explicit class combinations, never the
\* fallback of the last else.
C26_EachDirectoryInOneClass ==
    LoopReported =>
        /\ Len(directories) - success_dirs - Len(clean_error_messages) >= 0
        /\ final_text.kind # "partly"

\* C27 (as claimed): after any sequence of /switch and /reload_config,
\* whether they succeed or reply an error, ALIST_OFFLINE_DIRS is not empty,
\* current_download_dir_index is a valid index into it and
\* current_download_dir is the directory at that index.
C27_CurrentDirIsConfigured ==
    /\ ALIST_OFFLINE_DIRS # <<>>
    /\ current_download_dir_index \in 0..(Len(ALIST_OFFLINE_DIRS) - 1)
    /\ current_download_dir = ALIST_OFFLINE_DIRS[current_download_dir_index + 1]

\* The orderings of n records: the permutations of 1..n.
Orderings ==
    [n \in 0..(MaxRecords + 1) |->
        {p \in [1..n -> 1..n] : \A i, j \in 1..n : p[i] = p[j] => i = j}]

\* The records of the search data in the order p.
Reordered(entries, p) == [i \in 1..Len(entries) |-> entries[p[i]]]

\* The candidates with the size and the date ordinal of the selected one.
TiedWithChosen ==
    {e \in EntriesOf(parsed_entries) :
        /\ e.size_bytes = Chosen.size_bytes
        /\ DateOrdinal(e.date) = DateOrdinal(Chosen.date)}

\* C28 (as claimed): the locator get_magnet selects depends only on the set
\* of the valid candidates: for every other ordering of the same records
\* get_magnet returns the same locator.
C28_SameLocatorForAnyOrdering ==
    selected.magnet # None =>
        \A p \in Orderings[Len(parsed_entries)] :
            SelectMagnet(Reordered(parsed_entries, p)) = selected.magnet

\* C28 (amended): for every ordering of the same records the selected
\* candidate has the same size and the same date ordinal, so the locator is
\* the same unless several candidates share that size and date; among those
\* the one that comes first in the search data is selected.
C28_SameLocatorUnlessTied ==
    selected.magnet # None =>
        \A p \in Orderings[Len(parsed_entries)] :
            LET data == Reordered(parsed_entries, p)
                magnet == SelectMagnet(data)
            IN /\ magnet \in {e.magnet : e \in TiedWithChosen}
               /\ \A i, j \in 1..Len(data) :
                     (i < j /\ data[j].magnet = magnet) => data[i] \notin TiedWithChosen

\* get_magnet selected among three candidates of the cluster, two of which
\* share the size and the date of the selected one.
C28_Witness ==
    /\ selected.magnet # None
    /\ Len(parsed_entries) = 3
    /\ Cardinality(TiedWithChosen) = 2
    /\ \A e \in EntriesOf(parsed_entries) : NearMax(e, parsed_entries)
    /\ selected.magnet = parsed_entries[2].magnet

\* No walk of the reclaim lists a directory twice.
ListedAtMostOnce ==
    \A i, j \in 1..Len(listLog) :
        (i # j /\ listLog[i].walk = listLog[j].walk) => listLog[i].path # listLog[j].path

\* The steps cleanup_small_files has at most left: the batches and the
\* directory deletes still to send and the walks still to run, where a walk
\* yields no more batches than the tree has files and no more empty
\* directories than it has directories.
StepsLeft ==
    CASE pc = "start" -> Cardinality(DOMAIN fs.files) + Cardinality(fs.dirs) + 3
      [] pc = "files" -> Len(dir_files) + Cardinality(fs.dirs) + 2
      [] pc = "dirs" -> Cardinality(fs.dirs) + 1
      [] pc = "dir_deletes" -> Len(empty_dirs)
      [] OTHER -> 0

\* cleanup_small_files can take a step: the walks need nothing but their turn
\* (bot.py:400, 439), a loop needs an element left (bot.py:414, 356).
CanStep ==
    \/ pc = "start"
    \/ pc = "dirs"
    \/ ENABLED delete_file_batch("ok")
    \/ ENABLED delete_empty_dir("ok")

\* C29: on every tree and for every pattern of listing and delete failures
\* the reclaim terminates and returns exactly one outcome: until it has
\* returned it can always take a step (every request carries a timeout,
\* bot.py:253, 308, 364, 419), every step leaves fewer steps to take, the
\* outcome is there exactly when it has returned and never changes; and each
\* of its walks lists every directory at most once.
C29_ReclaimTerminates ==
    /\ [](pc = "done" \/ CanStep)
    /\ [][StepsLeft' < StepsLeft]_vars
    /\ [](pc = "done" <=> result # NoResult)
    /\ [][result # NoResult => result' = result]_vars
    /\ []ListedAtMostOnce

\* A reclaim returned after both walks listed several directories, with a
\* listing that failed and a delete request that failed.
C29_Witness ==
    /\ pc = "done"
    /\ result # NoResult
    /\ Len(ListedA) >= 2
    /\ Len(ListedB) >= 2
    /\ \E e \in Range(listLog) : ~e.ok
    /\ \E r \in Range(removeLog) : r.outcome # "ok"

====
